---------------------------- MODULE Spec2Model ----------------------------
(***************************************************************************)
(* pkg/defaults.py of dmqnode: the packaging fragment the package builder  *)
(* evaluates with three names bound: OPTS (the metadata record, a dict),   *)
(* ARGS (the ordered list of "source=destination" install mappings) and    *)
(* VAR (the namespace holding the name helper's result, VAR.fullname).     *)
(* The fragment is two statements, OPTS.update(...) and ARGS.extend([...]),*)
(* executed in that order.  Strings are TLA+ strings, a dict is a function *)
(* from its keys, a list is a sequence.                                    *)
(***************************************************************************)
EXTENDS Naturals, Sequences, FiniteSets, TLC

VARIABLES
    OPTS,       \* the metadata record
    ARGS,       \* the install-mapping list
    VAR,        \* the namespace of the name helper: attribute -> value
    run,        \* "idle" | "running" | "done" | "raised"
    stmt,       \* index in Program of the statement to execute next
    evals,      \* number of evaluations started so far
    OPTS0,      \* history: OPTS when the current evaluation started
    ARGS0,      \* history: ARGS when the current evaluation started
    streak,     \* history: completed evaluations in a row with this VAR
    ARGSbase    \* history: ARGS before the first evaluation of the streak

vars == <<OPTS, ARGS, VAR, run, stmt, evals, OPTS0, ARGS0, streak, ARGSbase>>

---------------------------------------------------------------------------
(* Bounds of the model.                                                    *)

\* evaluations of the fragment in one behaviour
MaxEvals == 3
\* entries of ARGS before the first evaluation
MaxInitArgs == 2

---------------------------------------------------------------------------
(* Inputs.                                                                 *)

\* The keys the fragment writes.
FiveKeys == {"name", "url", "maintainer", "vendor", "description"}

\* Keys the record may hold before the fragment runs: the five, and one the
\* fragment never names.
OptKeys == FiveKeys \cup {"version"}

\* The value a key holds before the first evaluation.
OldValue == "stale"

\* Names the helper may yield: empty, plain, with a suffix, malformed (blank,
\* slash, braces).
FullNames == {"", "dmqnode", "dmqnode-xenial", "dmq node/{}"}

\* The namespace without the attribute (the helper failed to yield a name).
NoFullname == [a \in {} |-> ""]

VarValues == {NoFullname} \cup {[a \in {"fullname"} |-> n] : n \in FullNames}

InitialOPTS == UNION {[K -> {OldValue}] : K \in SUBSET OptKeys}

InitialEntries == {"LICENSE=/usr/share/doc/dmqnode/", "README.rst=/usr/share/doc/dmqnode/"}

InitialARGS == UNION {[1..n -> InitialEntries] : n \in 0..MaxInitArgs}

---------------------------------------------------------------------------
(* The expressions of the fragment.                                        *)

\* VAR.fullname (lines 3 and 12): the attribute lookup raises when the
\* namespace has no such attribute.  Nothing else about the value is checked.
RaisesOnEmptyName(var) == "fullname" \notin DOMAIN var \/ Len(var["fullname"]) = 0
Raises(var) == "fullname" \notin DOMAIN var

\* A string literal's value from its source parts: a backslash followed by a
\* newline (lines 7-8, right after the opening quotes) is a line
\* continuation and contributes nothing.
RECURSIVE LiteralValue(_)
LiteralValue(parts) ==
    IF parts = <<>> THEN ""
    ELSE (IF Head(parts) = "\\\n" THEN "" ELSE Head(parts)) \o LiteralValue(Tail(parts))

\* The keyword arguments of OPTS.update (lines 3-8).
UpdateKwargsOldUrl(var) ==
    [k \in FiveKeys |->
        CASE k = "name" -> var["fullname"]
          [] k = "url" -> "https://github.com/sociomantic/dmqnode"
          [] k = "maintainer" -> "dunnhumby Germany GmbH <tsunami@sociomantic.com>"
          [] k = "vendor" -> "dunnhumby Germany GmbH"
          [] k = "description" -> LiteralValue(<<"\\\n",
               "The DMQ node is a server implementing one node for a network message queue.">>)]
UpdateKwargsNoDescription(var) ==
    [k \in FiveKeys |->
        CASE k = "name" -> var["fullname"]
          [] k = "url" -> "https://github.com/sociomantic-tsunami/dmqnode"
          [] k = "maintainer" -> "dunnhumby Germany GmbH <tsunami@sociomantic.com>"
          [] k = "vendor" -> "dunnhumby Germany GmbH"
          [] k = "description" -> LiteralValue(<<"\\\n">>)]
UpdateKwargs(var) ==
    [k \in FiveKeys |->
        CASE k = "name" -> var["fullname"]
          [] k = "url" -> "https://github.com/sociomantic-tsunami/dmqnode"
          [] k = "maintainer" -> "dunnhumby Germany GmbH <tsunami@sociomantic.com>"
          [] k = "vendor" -> "dunnhumby Germany GmbH"
          [] k = "description" -> LiteralValue(<<"\\\n",
               "The DMQ node is a server implementing one node for a network message queue.">>)]

\* dict.update (line 1): every key of kw is set to kw's value, every other
\* key of d is kept.
DictUpdateReplace(d, kw) == kw
DictUpdateKeepOld(d, kw) ==
    [k \in DOMAIN d \cup DOMAIN kw |-> IF k \in DOMAIN d THEN d[k] ELSE kw[k]]
DictUpdate(d, kw) ==
    [k \in DOMAIN d \cup DOMAIN kw |-> IF k \in DOMAIN kw THEN kw[k] ELSE d[k]]

\* The format string of line 12, as str.format parses it: literal text and
\* replacement fields ("{}").
ReadmeTemplateNoSlash == <<"README.rst=/usr/share/doc/", "{}">>
ReadmeTemplate == <<"README.rst=/usr/share/doc/", "{}", "/">>

\* str.format (line 12): the n-th automatically numbered field is replaced
\* by the n-th positional argument (a str formats as itself, and is not
\* parsed again), literal text is copied.
RECURSIVE FormatFrom(_, _, _)
FormatFrom(parts, args, n) ==
    IF parts = <<>> THEN ""
    ELSE IF Head(parts) = "{}"
         THEN args[n] \o FormatFrom(Tail(parts), args, n + 1)
         ELSE Head(parts) \o FormatFrom(Tail(parts), args, n)

Format(template, args) == FormatFrom(template, args, 1)

\* The list literal passed to ARGS.extend (lines 11-12).
ExtendItems(var) == <<Format(ReadmeTemplate, <<var["fullname"]>>)>>

\* list.extend (line 11): the items are appended, in order, at the end.
ListExtendFront(l, items) == items \o l
ListExtendUnique(l, items) ==
    l \o SelectSeq(items, LAMBDA e : \A i \in 1..Len(l) : l[i] # e)
ListExtend(l, items) == l \o items

---------------------------------------------------------------------------
(* The statements.  A statement evaluates its arguments, then makes its    *)
(* call; an exception while the arguments are evaluated leaves the call    *)
(* unmade.  The result is the record or list afterwards and whether the    *)
(* statement raised.                                                       *)

\* OPTS.update(name = VAR.fullname, ...) (lines 1-9).
UpdateStatementPartial(opts, var) ==
    IF Raises(var)
    THEN [raised |-> TRUE,
          value |-> DictUpdate(opts, [k \in {"url"} |-> "https://github.com/sociomantic-tsunami/dmqnode"])]
    ELSE [raised |-> FALSE, value |-> DictUpdate(opts, UpdateKwargs(var))]
UpdateStatement(opts, var) ==
    IF Raises(var)
    THEN [raised |-> TRUE, value |-> opts]
    ELSE [raised |-> FALSE, value |-> DictUpdate(opts, UpdateKwargs(var))]

\* ARGS.extend(["README.rst=/usr/share/doc/{}/".format(VAR.fullname)])
\* (lines 11-12).
ExtendStatement(args, var) ==
    IF Raises(var)
    THEN [raised |-> TRUE, value |-> args]
    ELSE [raised |-> FALSE, value |-> ListExtend(args, ExtendItems(var))]

\* The statements of the fragment in execution order.
ProgramSwapped == <<"ARGS.extend", "OPTS.update">>
Program == <<"OPTS.update", "ARGS.extend">>

---------------------------------------------------------------------------
(* The state machine.                                                      *)

Init ==
    /\ OPTS \in InitialOPTS
    /\ ARGS \in InitialARGS
    /\ VAR = NoFullname
    /\ run = "idle"
    /\ stmt = 0
    /\ evals = 0
    /\ OPTS0 = OPTS
    /\ ARGS0 = ARGS
    /\ streak = 0
    /\ ARGSbase = ARGS

\* The package builder evaluates the fragment with the helper's result v.
Start(v) ==
    /\ run # "running"
    /\ evals < MaxEvals
    /\ VAR' = v
    /\ run' = "running"
    /\ stmt' = 1
    /\ evals' = evals + 1
    /\ OPTS0' = OPTS
    /\ ARGS0' = ARGS
    /\ IF run = "done" /\ v = VAR
       THEN UNCHANGED <<streak, ARGSbase>>
       ELSE streak' = 0 /\ ARGSbase' = ARGS
    /\ UNCHANGED <<OPTS, ARGS>>

\* Control after a statement: the next statement, the end of the file, or
\* the exception leaving the evaluation.
After(raised) ==
    IF raised
    THEN run' = "raised" /\ UNCHANGED <<stmt, streak>>
    ELSE /\ stmt' = stmt + 1
         /\ run' = IF stmt = Len(Program) THEN "done" ELSE "running"
         /\ streak' = IF stmt = Len(Program) THEN streak + 1 ELSE streak

ExecUpdate ==
    /\ run = "running"
    /\ Program[stmt] = "OPTS.update"
    /\ LET r == UpdateStatement(OPTS, VAR)
       IN  OPTS' = r.value /\ After(r.raised)
    /\ UNCHANGED <<ARGS, VAR, evals, OPTS0, ARGS0, ARGSbase>>

ExecExtend ==
    /\ run = "running"
    /\ Program[stmt] = "ARGS.extend"
    /\ LET r == ExtendStatement(ARGS, VAR)
       IN  ARGS' = r.value /\ After(r.raised)
    /\ UNCHANGED <<OPTS, VAR, evals, OPTS0, ARGS0, ARGSbase>>

Next ==
    \/ \E v \in VarValues : Start(v)
    \/ ExecUpdate
    \/ ExecExtend

Spec == Init /\ [][Next]_vars

\* An evaluation is one synchronous run of the interpreter: a statement
\* that can execute does.
FairSpec == Spec /\ WF_vars(ExecUpdate) /\ WF_vars(ExecExtend)

---------------------------------------------------------------------------
(* The claims.  "After an evaluation" is run = "done": the last statement  *)
(* has executed.  The expected strings are written out here, independently *)
(* of the definitions above.                                               *)

\* 'README.rst=/usr/share/doc/' followed by n followed by '/'.
ReadmeEntryFor(n) == "README.rst=/usr/share/doc/" \o n \o "/"

\* The five literal values, with the name given.
HoldsTheFive(opts, n) ==
    /\ FiveKeys \subseteq DOMAIN opts
    /\ opts["name"] = n
    /\ opts["url"] = "https://github.com/sociomantic-tsunami/dmqnode"
    /\ opts["maintainer"] = "dunnhumby Germany GmbH <tsunami@sociomantic.com>"
    /\ opts["vendor"] = "dunnhumby Germany GmbH"
    /\ opts["description"] =
         "The DMQ node is a server implementing one node for a network message queue."

\* n copies of e.
Copies(n, e) == [i \in 1..n |-> e]

\* How often e occurs in the list l.
Count(l, e) == Cardinality({i \in 1..Len(l) : l[i] = e})

\* C1 as stated: after an evaluation the metadata record holds exactly the
\* five keys name, url, maintainer, vendor and description (and no other),
\* with name = VAR.fullname and the four literal values.
C1Original ==
    run = "done" => DOMAIN OPTS = FiveKeys /\ HoldsTheFive(OPTS, VAR["fullname"])

\* C1 as amended: after an evaluation the metadata record holds the five
\* keys with name = VAR.fullname and the four literal values; the keys it
\* holds besides the five are exactly those it held before the evaluation.
C1Amended ==
    run = "done" =>
        /\ HoldsTheFive(OPTS, VAR["fullname"])
        /\ DOMAIN OPTS \ FiveKeys = DOMAIN OPTS0 \ FiveKeys

C1Witness ==
    /\ run = "done"
    /\ "version" \in DOMAIN OPTS
    /\ "url" \notin DOMAIN OPTS0
    /\ OPTS["name"] = "dmqnode-xenial"

\* C2: one evaluation adds exactly one entry to ARGS, at the end: the list
\* afterwards is the list before followed by
\* 'README.rst=/usr/share/doc/<VAR.fullname>/', and is longer by exactly 1.
C2AppendsOneEntry ==
    run = "done" =>
        /\ Len(ARGS) = Len(ARGS0) + 1
        /\ ARGS = ARGS0 \o <<ReadmeEntryFor(VAR["fullname"])>>

C2Witness ==
    /\ run = "done"
    /\ Len(ARGS0) = 2
    /\ ARGS0[1] # ARGS0[2]
    /\ ARGS[3] = "README.rst=/usr/share/doc/dmq node/{}/"

\* C3: n evaluations in a row against the same list with the same
\* VAR.fullname leave n copies of the README entry: the list is the list
\* before the first of them followed by n copies (so the entry occurs n
\* times more than before); nothing is removed or deduplicated.
C3NotIdempotentOnArgs ==
    run = "done" =>
        LET e == ReadmeEntryFor(VAR["fullname"])
        IN  /\ ARGS = ARGSbase \o Copies(streak, e)
            /\ Count(ARGS, e) = Count(ARGSbase, e) + streak

C3Witness ==
    /\ run = "done"
    /\ streak = 3
    /\ ARGSbase = <<>>
    /\ ARGS = <<"README.rst=/usr/share/doc/dmqnode/",
                "README.rst=/usr/share/doc/dmqnode/",
                "README.rst=/usr/share/doc/dmqnode/">>

\* C4: a step of an evaluation changes nothing but the five keys of OPTS
\* and the end of ARGS: every other key of OPTS keeps its value and no key
\* but the five appears, the old ARGS is a prefix of the new one, which is
\* longer by at most the one entry, and VAR is unchanged.
C4Frame ==
    [][run = "running" =>
        /\ VAR' = VAR
        /\ \A k \in DOMAIN OPTS \ FiveKeys : k \in DOMAIN OPTS' /\ OPTS'[k] = OPTS[k]
        /\ DOMAIN OPTS' \subseteq DOMAIN OPTS \cup FiveKeys
        /\ Len(ARGS') \in {Len(ARGS), Len(ARGS) + 1}
        /\ SubSeq(ARGS', 1, Len(ARGS)) = ARGS]_vars

C4Witness ==
    /\ run = "done"
    /\ "version" \in DOMAIN OPTS
    /\ OPTS["version"] = "stale"
    /\ OPTS["vendor"] # "stale"
    /\ Len(ARGS0) = 2
    /\ Len(ARGS) = 3

\* C5 as stated: after an evaluation the description and the name of the
\* metadata record are non-empty strings.
C5Original ==
    run = "done" => Len(OPTS["description"]) > 0 /\ Len(OPTS["name"]) > 0

\* C5 as amended: after an evaluation the description is a non-empty
\* string, and the name is non-empty exactly when the VAR.fullname the
\* helper yielded is non-empty (an empty name is written as it is).
C5Amended ==
    run = "done" =>
        /\ Len(OPTS["description"]) > 0
        /\ (Len(OPTS["name"]) > 0 <=> Len(VAR["fullname"]) > 0)

C5Witness ==
    /\ run = "done"
    /\ "description" \notin DOMAIN OPTS0
    /\ Len(OPTS["description"]) > 0
    /\ Len(OPTS["name"]) > 0

\* C6: no validation: whatever value the helper yields for VAR.fullname,
\* empty and malformed ones included, the evaluation does not raise, and
\* when it is over OPTS name is that value and the newest ARGS entry is
\* 'README.rst=/usr/share/doc/<that value>/'.
C6NoValidation ==
    "fullname" \in DOMAIN VAR =>
        /\ run # "raised"
        /\ run = "done" =>
             /\ OPTS["name"] = VAR["fullname"]
             /\ ARGS[Len(ARGS)] = ReadmeEntryFor(VAR["fullname"])

C6Witness ==
    /\ run = "done"
    /\ VAR["fullname"] = ""
    /\ OPTS["name"] = ""
    /\ ARGS[Len(ARGS)] = "README.rst=/usr/share/doc//"

\* C7: an evaluation always ends (completed or raised), and whenever ARGS
\* holds the entry appended by the current evaluation, OPTS holds the five
\* keys as written by that evaluation: the merge precedes the append.
C7MergeBeforeAppend ==
    /\ [](Len(ARGS) > Len(ARGS0) => HoldsTheFive(OPTS, VAR["fullname"]))
    /\ (run = "running") ~> (run \in {"done", "raised"})

C7Witness ==
    /\ run = "running"
    /\ stmt = 2
    /\ OPTS # OPTS0
    /\ OPTS["name"] = VAR["fullname"]
    /\ ARGS = ARGS0

\* C8: after an evaluation the last entry of ARGS is
\* 'README.rst=/usr/share/doc/' + OPTS['name'] + '/', also when the name
\* differs from that of the evaluation before.
C8NameAgrees ==
    run = "done" =>
        ARGS[Len(ARGS)] = "README.rst=/usr/share/doc/" \o OPTS["name"] \o "/"

C8Witness ==
    /\ run = "done"
    /\ evals = 2
    /\ "name" \in DOMAIN OPTS0
    /\ OPTS0["name"] = "dmqnode"
    /\ OPTS["name"] = "dmqnode-xenial"
    /\ ARGS = <<"README.rst=/usr/share/doc/dmqnode/",
                "README.rst=/usr/share/doc/dmqnode-xenial/">>

\* C9: the merge overwrites (after an evaluation each of the five keys
\* holds this evaluation's value, whatever it held before) and is
\* idempotent (a second evaluation in a row with the same VAR.fullname
\* leaves OPTS as the first left it).
C9MergeIdempotent ==
    run = "done" =>
        /\ HoldsTheFive(OPTS, VAR["fullname"])
        /\ streak >= 2 => OPTS = OPTS0

C9Witness ==
    /\ run = "done"
    /\ streak = 2
    /\ OPTS = OPTS0
    /\ ARGS # ARGS0

\* C10: when the helper fails to yield VAR.fullname, the evaluation stops
\* at OPTS.update with OPTS and ARGS as they were before it.
C10FailureLeavesRecords ==
    run = "raised" => stmt = 1 /\ OPTS = OPTS0 /\ ARGS = ARGS0

C10Witness ==
    /\ run = "raised"
    /\ "fullname" \notin DOMAIN VAR
    /\ "url" \notin DOMAIN OPTS
    /\ "name" \in DOMAIN OPTS
    /\ Len(ARGS) = 2

===========================================================================
